---- MODULE Spec2Model ----
(***************************************************************************)
(* HRMS payslip generator (src/hrms.py, src/config.py).                    *)
(*                                                                         *)
(* The module has three layers:                                            *)
(*   1. Python float arithmetic (IEEE-754 binary64, round to nearest even) *)
(*      on which create_payslip_pdf computes every amount;                 *)
(*   2. create_payslip_pdf's earnings, deductions and summary, a block of  *)
(*      lines at a time, and main's month enumeration;                     *)
(*   3. main() as a state machine over runs, the clock, the stored sent    *)
(*      log and the emails that left the system.                           *)
(***************************************************************************)
EXTENDS Integers, Sequences, FiniteSets, TLC

(***************************************************************************)
(* Natural numbers of arbitrary size: little-endian sequences of limbs in  *)
(* base 2^14, without leading (high) zero limbs; <<>> is zero.  They carry *)
(* the 53-bit significands of binary64 and the exact intermediate results  *)
(* that are rounded back to 53 bits.                                       *)
(***************************************************************************)
LimbBits == 14

Base == 2^LimbBits

Precision == 53

RECURSIVE BNorm(_)
BNorm(a) ==
  IF a = <<>> THEN a
  ELSE IF a[Len(a)] = 0 THEN BNorm(SubSeq(a, 1, Len(a) - 1)) ELSE a

RECURSIVE BFromInt(_)
BFromInt(n) == IF n = 0 THEN <<>> ELSE <<n % Base>> \o BFromInt(n \div Base)

RECURSIVE BToInt(_)
BToInt(a) == IF a = <<>> THEN 0 ELSE a[1] + Base * BToInt(Tail(a))

RECURSIVE BAddC(_, _, _)
BAddC(a, b, c) ==
  IF a = <<>> /\ b = <<>> THEN (IF c = 0 THEN <<>> ELSE <<c>>)
  ELSE LET x == (IF a = <<>> THEN 0 ELSE a[1]) + (IF b = <<>> THEN 0 ELSE b[1]) + c
       IN  <<x % Base>> \o BAddC(IF a = <<>> THEN a ELSE Tail(a),
                                 IF b = <<>> THEN b ELSE Tail(b), x \div Base)

BAdd(a, b) == BAddC(a, b, 0)

\* a - b for a >= b
RECURSIVE BSubC(_, _, _)
BSubC(a, b, c) ==
  IF a = <<>> THEN <<>>
  ELSE LET x == a[1] - (IF b = <<>> THEN 0 ELSE b[1]) - c
       IN  <<(x + Base) % Base>>
             \o BSubC(Tail(a), IF b = <<>> THEN b ELSE Tail(b), IF x < 0 THEN 1 ELSE 0)

BSub(a, b) == BNorm(BSubC(a, b, 0))

RECURSIVE BCmpAt(_, _, _)
BCmpAt(a, b, i) ==
  IF i = 0 THEN 0
  ELSE IF a[i] > b[i] THEN 1
  ELSE IF a[i] < b[i] THEN -1
  ELSE BCmpAt(a, b, i - 1)

\* -1, 0 or 1 as a < b, a = b, a > b
BCmp(a, b) ==
  IF Len(a) > Len(b) THEN 1
  ELSE IF Len(a) < Len(b) THEN -1
  ELSE BCmpAt(a, b, Len(a))

\* a * k for 0 <= k <= Base
RECURSIVE BMulSmallC(_, _, _)
BMulSmallC(a, k, c) ==
  IF a = <<>> THEN (IF c = 0 THEN <<>> ELSE <<c>>)
  ELSE LET x == a[1] * k + c
       IN  <<x % Base>> \o BMulSmallC(Tail(a), k, x \div Base)

BMulSmall(a, k) == IF k = 0 THEN <<>> ELSE BMulSmallC(a, k, 0)

RECURSIVE BMul(_, _)
BMul(a, b) ==
  IF a = <<>> \/ b = <<>> THEN <<>>
  ELSE LET rest == BMul(a, Tail(b))
       IN  BAdd(BMulSmall(a, b[1]), IF rest = <<>> THEN rest ELSE <<0>> \o rest)

\* floor(a / d) for 0 < d <= Base, high limb first
RECURSIVE BDivSmallR(_, _, _)
BDivSmallR(a, d, r) ==
  IF a = <<>> THEN <<>>
  ELSE LET x == r * Base + a[Len(a)]
       IN  BDivSmallR(SubSeq(a, 1, Len(a) - 1), d, x % d) \o <<x \div d>>

BDivSmall(a, d) == BNorm(BDivSmallR(a, d, 0))

BShl(a, k) ==
  IF a = <<>> THEN a
  ELSE [i \in 1..(k \div LimbBits) |-> 0] \o BMulSmall(a, 2^(k % LimbBits))

BShr(a, k) ==
  IF k \div LimbBits >= Len(a) THEN <<>>
  ELSE BDivSmall(SubSeq(a, (k \div LimbBits) + 1, Len(a)), 2^(k % LimbBits))

RECURSIVE IntBitLen(_)
IntBitLen(n) == IF n = 0 THEN 0 ELSE 1 + IntBitLen(n \div 2)

BBitLen(a) == IF a = <<>> THEN 0 ELSE LimbBits * (Len(a) - 1) + IntBitLen(a[Len(a)])

BBit(a, i) == (a[(i \div LimbBits) + 1] \div 2^(i % LimbBits)) % 2

BOdd(a) == a # <<>> /\ a[1] % 2 = 1

\* The largest d in 0..Base-1 with b * d <= r, for r < b * Base: the bits of d
\* are settled from bit i down.
RECURSIVE BDigitAt(_, _, _, _)
BDigitAt(r, b, i, d) ==
  IF i < 0 THEN d
  ELSE IF BCmp(BMulSmall(b, d + 2^i), r) <= 0 THEN BDigitAt(r, b, i - 1, d + 2^i)
  ELSE BDigitAt(r, b, i - 1, d)

\* <<quotient, remainder>> of a by b # 0: long division, one limb of a at a time
\* from the high end
RECURSIVE BDivMod(_, _)
BDivMod(a, b) ==
  IF a = <<>> THEN << <<>>, <<>> >>
  ELSE LET qr == BDivMod(Tail(a), b)
           r  == BNorm(<<a[1]>> \o qr[2])
           d  == BDigitAt(r, b, LimbBits - 1, 0)
       IN  <<BNorm(<<d>> \o qr[1]), BSub(r, BMulSmall(b, d))>>

\* m * 2^e (e any integer) rounded to the nearest integer, ties to even
BRoundShift(m, e) ==
  IF e >= 0 THEN BShl(m, e)
  ELSE LET q    == BShr(m, -e)
           r    == BSub(m, BShl(q, -e))
           half == BShl(<<1>>, (-e) - 1)
           c    == BCmp(r, half)
       IN  IF c > 0 \/ (c = 0 /\ BOdd(q)) THEN BAdd(q, <<1>>) ELSE q

(***************************************************************************)
(* Python float: binary64.  A finite value is (-1)^s * m * 2^e with m = 0  *)
(* (then s = 0, e = 0: signed zeros are not told apart) or m of exactly    *)
(* Precision bits; k = "nan" is NaN.  Amounts stay far from the exponent   *)
(* range's ends, so overflow and subnormals never arise.                   *)
(***************************************************************************)
FZero == [k |-> "num", s |-> 0, m |-> <<>>, e |-> 0]

FNaN == [k |-> "nan", s |-> 0, m |-> <<>>, e |-> 0]

\* the binary64 nearest to (-1)^s * M * 2^e, ties to even
FRound(s, M, e) ==
  IF M = <<>> THEN FZero
  ELSE LET L == BBitLen(M) - Precision
       IN  IF L <= 0 THEN [k |-> "num", s |-> s, m |-> BShl(M, -L), e |-> e + L]
           ELSE LET q == BRoundShift(M, -L)
                IN  IF BBitLen(q) > Precision
                    THEN [k |-> "num", s |-> s, m |-> BShr(q, 1), e |-> e + L + 1]
                    ELSE [k |-> "num", s |-> s, m |-> q, e |-> e + L]

FromInt(n) == FRound(IF n < 0 THEN 1 ELSE 0, BFromInt(IF n < 0 THEN -n ELSE n), 0)

FIsNaN(a) == a.k = "nan"

FNeg(a) == IF FIsNaN(a) \/ a.m = <<>> THEN a ELSE [a EXCEPT !.s = 1 - a.s]

FMul(a, b) ==
  IF FIsNaN(a) \/ FIsNaN(b) THEN FNaN
  ELSE FRound((a.s + b.s) % 2, BMul(a.m, b.m), a.e + b.e)

\* a / b for b # 0: a quotient of at least Precision + 3 bits, then a sticky bit
FDiv(a, b) ==
  IF FIsNaN(a) \/ FIsNaN(b) THEN FNaN
  ELSE IF a.m = <<>> THEN FZero
  ELSE LET sh == Precision + 3
           qr == BDivMod(BShl(a.m, sh), b.m)
           q  == BAdd(BMulSmall(qr[1], 2), IF qr[2] = <<>> THEN <<>> ELSE <<1>>)
       IN  FRound((a.s + b.s) % 2, q, a.e - b.e - sh - 1)

FAdd(a, b) ==
  IF FIsNaN(a) \/ FIsNaN(b) THEN FNaN
  ELSE IF a.m = <<>> THEN b
  ELSE IF b.m = <<>> THEN a
  ELSE LET e0 == IF a.e < b.e THEN a.e ELSE b.e
           A  == BShl(a.m, a.e - e0)
           B  == BShl(b.m, b.e - e0)
           c  == BCmp(A, B)
       IN  IF a.s = b.s THEN FRound(a.s, BAdd(A, B), e0)
           ELSE IF c = 0 THEN FZero
           ELSE IF c > 0 THEN FRound(a.s, BSub(A, B), e0)
           ELSE FRound(b.s, BSub(B, A), e0)

FSub(a, b) == FAdd(a, FNeg(b))

\* a > 0 (False for NaN)
FPos(a) == ~FIsNaN(a) /\ a.m # <<>> /\ a.s = 0

\* round(a) of a finite float: the nearest integer, ties to even
FRoundInt(a) ==
  LET n == BToInt(BRoundShift(a.m, a.e)) IN IF a.s = 1 THEN -n ELSE n

\* The amount f"{a:,.2f}" prints for a finite float, in hundredths: the exact
\* binary value rounded to 2 decimals, ties to even.
Cents(a) ==
  LET n == BToInt(BRoundShift(BMulSmall(a.m, 100), a.e)) IN IF a.s = 1 THEN -n ELSE n

(***************************************************************************)
(* num_to_words_indian.  A Python int is [neg, mag]: its sign and its      *)
(* magnitude, a natural number of arbitrary size.  Strings are strings.    *)
(***************************************************************************)
PyInt(i) == [neg |-> i < 0, mag |-> BFromInt(IF i < 0 THEN -i ELSE i)]

\* <<n // d, n % d>> for an int d > 0: Python rounds the quotient down
PyDivMod(n, d) ==
  LET qr == BDivMod(n.mag, BFromInt(d))
      q0 == BToInt(qr[1])
      r0 == BToInt(qr[2])
  IN  IF ~n.neg THEN <<q0, r0>>
      ELSE IF r0 = 0 THEN <<-q0, 0>>
      ELSE <<-(q0 + 1), d - r0>>

\* The two lists; the list index k is the sequence index k + 1
ones ==
  <<"", "One", "Two", "Three", "Four", "Five", "Six", "Seven", "Eight", "Nine", "Ten",
    "Eleven", "Twelve", "Thirteen", "Fourteen", "Fifteen", "Sixteen", "Seventeen",
    "Eighteen", "Nineteen">>

tens ==
  <<"", "", "Twenty", "Thirty", "Forty", "Fifty", "Sixty", "Seventy", "Eighty", "Ninety">>

\* two(n), called with 0 <= n <= 99 only
two(n) ==
  IF n < 20 THEN ones[n + 1]
  ELSE tens[(n \div 10) + 1] \o (IF n % 10 = 0 THEN "" ELSE " " \o ones[(n % 10) + 1])

\* three(n) raises IndexError: ones[n//100] with n//100 beyond the end of the list
three_raises(n) == n >= 100 /\ (n \div 100) >= Len(ones)

\* three(n) where it does not raise.  n may be negative (a crore count below
\* zero): then n >= 100 is false and n % 100 is in 0..99.
three(n) ==
  (IF n >= 100
   THEN ones[(n \div 100) + 1] \o " Hundred" \o (IF n % 100 # 0 THEN " " ELSE "")
   ELSE "")
  \o (IF n % 100 # 0 THEN two(n % 100) ELSE "")

\* " ".join(parts)
RECURSIVE Join(_)
Join(parts) ==
  IF parts = <<>> THEN ""
  ELSE IF Len(parts) = 1 THEN parts[1]
  ELSE parts[1] \o " " \o Join(Tail(parts))

\* num_to_words_indian(n): the string returned, or the IndexError of three(crore).
\* lakh and thousand are below 100 and the last n below 1000, so only
\* three(crore) can raise.
num_to_words_indian(n) ==
  IF n.mag = <<>> THEN [raised |-> FALSE, words |-> "Zero"]
  ELSE
    LET byCrore  == PyDivMod(n, 10000000)
        crore    == byCrore[1]
        lakh     == byCrore[2] \div 100000
        thousand == (byCrore[2] % 100000) \div 1000
        rest     == byCrore[2] % 1000
    IN  IF crore # 0 /\ three_raises(crore) THEN [raised |-> TRUE, words |-> ""]
        ELSE [raised |-> FALSE,
              words |->
                Join( (IF crore # 0 THEN <<three(crore) \o " Crore">> ELSE <<>>)
                      \o (IF lakh # 0 THEN <<three(lakh) \o " Lakh">> ELSE <<>>)
                      \o (IF thousand # 0 THEN <<three(thousand) \o " Thousand">> ELSE <<>>)
                      \o (IF rest # 0 THEN <<three(rest)>> ELSE <<>>) )]

(***************************************************************************)
(* An employee record: one row of employees.xlsx as pandas hands it over,  *)
(* a function from column label to cell.  A cell is                        *)
(*   "num"    a number, c hundredths (the binary64 nearest to c/100),      *)
(*   "nan"    an empty cell (NaN),                                         *)
(*   "text"   a string that is neither a number nor a date,                *)
(*   "absent" the column is not in the sheet (row.get gives its default),  *)
(*   "name"   a string (Employee ID, FullName, Email): t its text, a       *)
(*            sequence of pieces of which " " is white space,              *)
(*   "date"   a date-time, d its value,                                    *)
(*   "dmy"    a text "DD-MM-YYYY".                                         *)
(***************************************************************************)
NumCell(c) == [kind |-> "num", c |-> c]

NaNCell == [kind |-> "nan"]

TextCell == [kind |-> "text"]

AbsentCell == [kind |-> "absent"]

\* row.get(label, default)
RowGet(row, label, default) ==
  IF row[label].kind = "absent" THEN default ELSE row[label]

\* pd.notna(x) / pd.isna(x)
pd_notna(cell) == cell.kind # "nan"

\* float(x) raises ValueError for a string that is no number
FloatRaises(cell) == cell.kind \notin {"num", "nan"}

\* float(x) where it does not raise
FloatOf(cell) ==
  IF cell.kind = "num" THEN FDiv(FromInt(cell.c), FromInt(100)) ELSE FNaN

prorate_items == <<"Basic", "HRA", "Special Allowance">>

non_prorate_items ==
  <<"Medical Allowance", "Transport Allowance", "Professional Allowance",
    "Performance Pay", "Courier Reimb">>

\* <<total_working_days, actual_payable_days>>: one try block around both
\* conversions, both 0.0 if either raises
WorkingDays(row) ==
  LET t == RowGet(row, "Total Working Days", NumCell(0))
      a == RowGet(row, "Actual Payable Days", NumCell(0))
  IN  IF FloatRaises(t) \/ FloatRaises(a) THEN <<FZero, FZero>>
      ELSE <<FloatOf(t), FloatOf(a)>>

\* amt_f of the two earnings loops: float(amt) if pd.notna(amt) else 0.0, and 0.0
\* on any exception
AmtF(row, label) ==
  LET amt == RowGet(row, label, NumCell(0))
  IN  IF pd_notna(amt) /\ ~FloatRaises(amt) THEN FloatOf(amt) ELSE FZero

\* prorated_amt
Prorate(amt_f, total_working_days, actual_payable_days) ==
  IF FPos(total_working_days)
  THEN FMul(FDiv(amt_f, total_working_days), actual_payable_days)
  ELSE FZero

\* float(row.get(label, 0)) if pd.notna(row.get(label, 0)) else 0.0, in no try
\* block: whether it raises, and its value when it does not
UnguardedRaises(row, label) ==
  LET amt == RowGet(row, label, NumCell(0)) IN pd_notna(amt) /\ FloatRaises(amt)

UnguardedAmt(row, label) ==
  LET amt == RowGet(row, label, NumCell(0))
  IN  IF pd_notna(amt) THEN FloatOf(amt) ELSE FZero

\* pf_amt: the value only when it is > 0
PfAmt(amt) == IF FPos(amt) THEN amt ELSE FZero

\* f"{amt:,.2f}": the hundredths printed, or "nan"
Shown(amt) == IF FIsNaN(amt) THEN "nan" ELSE Cents(amt)

\* One drawn line: drawString(label), drawRightString(f"{amt:,.2f}")
Line(label, amt) == [label |-> label, amt |-> amt, shown |-> Shown(amt)]

\* An item drawn whatever its amount (C10 rejects it)
OptionalLineAlways(label, amt) == <<Line(label, amt)>>

\* The lines an item adds that is drawn only if its amount is > 0
OptionalLine(label, amt) == IF FPos(amt) THEN <<Line(label, amt)>> ELSE <<>>

\* total += amt for each line added
RECURSIVE RunningTotal(_, _)
RunningTotal(lines, total) ==
  IF lines = <<>> THEN total
  ELSE RunningTotal(Tail(lines), FAdd(total, Head(lines).amt))

\* A net salary that adds the deductions (C2 rejects it)
NetSalaryAdding(total_earn, total_ded) == FAdd(total_earn, total_ded)

\* net_salary = total_earn - total_ded
NetSalary(total_earn, total_ded) == FSub(total_earn, total_ded)

\* create_payslip_pdf raises on a row: float() of a string that is no number in
\* one of the four conversions no try block guards, or int(round(net_salary)) on
\* NaN, which net_salary is exactly when a prorated amount is: the working days
\* are > 0 and the payable days are NaN.
Raises(row) ==
  \/ UnguardedRaises(row, "Performance Bonus")
  \/ UnguardedRaises(row, "Professional Tax")
  \/ UnguardedRaises(row, "PF")
  \/ UnguardedRaises(row, "Performance Bonus Recovery")
  \/ LET t == RowGet(row, "Total Working Days", NumCell(0))
         a == RowGet(row, "Actual Payable Days", NumCell(0))
     IN  t.kind = "num" /\ t.c > 0 /\ a.kind = "nan"

\* create_payslip_pdf's locals: where it is (pc), the loop index, the days, the
\* lines drawn in each block, the running totals and the figures of the summary
NoSlip ==
  [pc |-> "none", i |-> 0, total_working_days |-> FZero, actual_payable_days |-> FZero,
   earnings |-> <<>>, total_earn |-> FZero, total_earn_shown |-> 0,
   deductions |-> <<>>, total_ded |-> FZero, total_ded_shown |-> 0,
   net_salary |-> FZero, net_shown |-> 0, net_int |-> 0, words |-> ""]

(***************************************************************************)
(* The rows the checks draw from.                                          *)
(***************************************************************************)
NumericLabels ==
  {"Total Working Days", "Actual Payable Days", "Basic", "HRA", "Special Allowance",
   "Medical Allowance", "Transport Allowance", "Professional Allowance",
   "Performance Pay", "Courier Reimb", "Performance Bonus", "Professional Tax",
   "PF", "Performance Bonus Recovery"}

NameCell(t) == [kind |-> "name", t |-> t]

\* A date cell of the sheet, which pandas reads as a Timestamp
DateCell(y, m, d, t) == [kind |-> "date", d |-> [y |-> y, m |-> m, d |-> d, t |-> t]]

\* A text cell "DD-MM-YYYY", the form create_dummy_excel writes
DmyCell(dd, mm, yyyy) == [kind |-> "dmy", dd |-> dd, mm |-> mm, yyyy |-> yyyy]

\* The row create_dummy_excel writes (amounts in hundredths)
TemplateRow ==
  ( "Employee ID" :> NameCell(<<"AA001">>) @@ "FullName" :> NameCell(<<"Arun Kumar">>)
    @@ "Email" :> NameCell(<<"arun@arudra.com">>)
    @@ "Date of Joining" :> DmyCell(27, 8, 2025)
    @@ "Basic" :> NumCell(2350000) @@ "HRA" :> NumCell(1175000)
    @@ "Medical Allowance" :> NumCell(470000) @@ "Transport Allowance" :> NumCell(160000)
    @@ "Special Allowance" :> NumCell(310000) @@ "Professional Allowance" :> NumCell(117500)
    @@ "Performance Pay" :> NumCell(117500) @@ "Courier Reimb" :> NumCell(120000)
    @@ "Total Working Days" :> NumCell(2000) @@ "Actual Payable Days" :> NumCell(1900)
    @@ "Professional Tax" :> NumCell(20000) @@ "Performance Bonus" :> NumCell(100000)
    @@ "Performance Bonus Recovery" :> NumCell(0) @@ "PF" :> NumCell(50000) )

\* The record of the end-to-end example: the template's amounts, with no Special
\* Allowance and no Performance Bonus Recovery column
ExampleRow ==
  [TemplateRow EXCEPT !["Special Allowance"] = AbsentCell,
                      !["Performance Bonus Recovery"] = AbsentCell]

\* Days range over 0..MaxDays
MaxDays == 7

\* Amounts, in hundredths
GridAmounts == {0, 2900, 10000}

SignedAmounts == {-5000, 0, 50000}

\* Every day count against a few amounts of the prorated items
GridRows ==
  { [TemplateRow EXCEPT !["Basic"] = NumCell(b), !["HRA"] = NumCell(h),
                        !["Total Working Days"] = NumCell(100 * t),
                        !["Actual Payable Days"] = NumCell(100 * a)] :
      b \in GridAmounts \ {0}, h \in GridAmounts \ {2900}, t \in 0..MaxDays, a \in 0..MaxDays }

\* Every sign of the conditional items, the other earnings at zero
ConditionalRows ==
  { [l \in DOMAIN TemplateRow |->
       CASE l = "Professional Tax" -> NumCell(pt)
         [] l = "PF" -> NumCell(pf)
         [] l = "Performance Bonus Recovery" -> NumCell(rec)
         [] l = "Performance Bonus" -> NumCell(pb)
         [] l \in NumericLabels -> NumCell(0)
         [] OTHER -> TemplateRow[l]] :
      pt \in {0, 20000}, pf \in SignedAmounts, rec \in SignedAmounts, pb \in SignedAmounts }

\* The template with one numeric cell empty, not a number, or its column missing
BadCellRows ==
  { [TemplateRow EXCEPT ![l] = c] : l \in NumericLabels, c \in {NaNCell, TextCell, AbsentCell} }

PayRows == GridRows \cup ConditionalRows \cup BadCellRows \cup {TemplateRow, ExampleRow}

(***************************************************************************)
(* Dates.  A datetime is [y, m, d, t]: year, month, day, hour of the day.  *)
(***************************************************************************)
month_name ==
  <<"January", "February", "March", "April", "May", "June", "July", "August",
    "September", "October", "November", "December">>

IsLeap(y) == (y % 4 = 0 /\ y % 100 # 0) \/ y % 400 = 0

DaysInMonth(y, m) ==
  IF m = 2 THEN (IF IsLeap(y) THEN 29 ELSE 28)
  ELSE IF m \in {4, 6, 9, 11} THEN 30 ELSE 31

\* The order of datetimes: a <= b iff Ord(a) <= Ord(b)
Ord(dt) == ((dt.y * 12 + dt.m) * 32 + dt.d) * 24 + dt.t

\* dt.replace(day=d): only the day changes
replace_day(dt, d) == [dt EXCEPT !.d = d]

\* dt + Timedelta(days=n), for n of at most a month
plus_days(dt, n) ==
  IF dt.d + n <= DaysInMonth(dt.y, dt.m) THEN [dt EXCEPT !.d = dt.d + n]
  ELSE [dt EXCEPT !.d = dt.d + n - DaysInMonth(dt.y, dt.m),
                  !.m = IF dt.m = 12 THEN 1 ELSE dt.m + 1,
                  !.y = IF dt.m = 12 THEN dt.y + 1 ELSE dt.y]

NaT == [kind |-> "NaT"]

Timestamp(dt) == [kind |-> "ts", d |-> dt]

ValueError == [kind |-> "ValueError"]

\* pd.to_datetime(str(cell)).  The text of a Timestamp parses to the same
\* instant.  A text "DD-MM-YYYY" is read month first (dayfirst is False): its
\* first number is the month when it can be one, and only a first number above
\* 12 is taken as the day.  The text "nan" of an empty cell parses to NaT; any
\* other text ('N/A' of a missing column too) raises ValueError.
to_datetime(cell) ==
  CASE cell.kind = "date" -> Timestamp(cell.d)
    [] cell.kind = "dmy"  ->
         IF cell.dd <= 12
         THEN Timestamp([y |-> cell.yyyy, m |-> cell.dd, d |-> cell.mm, t |-> 0])
         ELSE Timestamp([y |-> cell.yyyy, m |-> cell.mm, d |-> cell.dd, t |-> 0])
    [] cell.kind = "nan"  -> NaT
    [] OTHER              -> ValueError

\* date_of_joining: the parsed cell, and datetime.now() on ValueError
DateOfJoining(row, today) ==
  LET parsed == to_datetime(row["Date of Joining"])
  IN  IF parsed = ValueError THEN Timestamp(today) ELSE parsed

\* The while loop: start, then the first of each next month, while start <= end
RECURSIVE MonthsFrom(_, _)
MonthsFrom(start, end) ==
  IF Ord(start) <= Ord(end)
  THEN <<start>> \o MonthsFrom(replace_day(plus_days(replace_day(start, 28), 4), 1), end)
  ELSE <<>>

\* months_to_process of one row.  NaT.replace(day=1) is NaT and NaT <= end is
\* False, so the loop adds nothing for NaT.
MonthsToProcess(row, today, all_past) ==
  LET date_of_joining == DateOfJoining(row, today)
      end == replace_day(today, 1)
  IN  IF all_past
      THEN (IF date_of_joining.kind = "NaT" THEN <<>>
            ELSE MonthsFrom(replace_day(date_of_joining.d, 1), end))
      ELSE <<end>>

(***************************************************************************)
(* Names, paths, the sent log.                                             *)
(***************************************************************************)
\* str.strip(): white space off both ends
RECURSIVE Strip(_)
Strip(t) ==
  IF t = <<>> THEN t
  ELSE IF Head(t) = " " THEN Strip(Tail(t))
  ELSE IF t[Len(t)] = " " THEN Strip(SubSeq(t, 1, Len(t) - 1))
  ELSE t

\* pd.isna(row.get(label)): an empty cell, or None for a missing column
IsNa(row, label) == row[label].kind \in {"nan", "absent"}

FullNameOf(row) == Strip(row["FullName"].t)

\* out_pdf = PAYSLIPS_DIR / fullname / str(year_gen) / month_name_gen / safe_name
OutPdf(fullname, date_to_process) ==
  <<"payslips", fullname, date_to_process.y, month_name[date_to_process.m],
    <<fullname, "-payslip-", month_name[date_to_process.m], "-", date_to_process.y, ".pdf">> >>

\* No "last_sent", no "history": what load_sent_log returns when there is no file
EmptyLog == [last_sent |-> <<>>, history |-> <<>>]

\* sent_key = f"{year}-{month_name}"
SentKey(dt) == <<dt.y, month_name[dt.m]>>

\* EMAIL_CONFIG of config.py has SMTP_USERNAME and SMTP_PASSWORD
email_cfg_ready == TRUE

(***************************************************************************)
(* The sheets and the clock the runs of main are checked on.               *)
(***************************************************************************)
\* The calendar window: MaxMonths months from the template's month of joining
MaxMonths == 7

WindowMonth(k) ==
  LET j == to_datetime(TemplateRow["Date of Joining"]).d
      n == (j.m - 1) + k
  IN  [y |-> j.y + (n \div 12), m |-> (n % 12) + 1]

\* Runs of main per behaviour
MaxRuns == 2

\* A second employee, who joined on the first day of the window's month k
Joiner(id, name, k) ==
  [TemplateRow EXCEPT !["Employee ID"] = NameCell(<<id>>),
                      !["FullName"] = NameCell(name),
                      !["Email"] = NameCell(<<id, "@arudra.com">>),
                      !["Date of Joining"] =
                         DateCell(WindowMonth(k).y, WindowMonth(k).m, 1, 0)]

Bala == Joiner("AA002", <<"Bala">>, 0)

Chitra == Joiner("AA003", <<"Chitra">>, 1)

\* The sheets: the template alone; two employees; a namesake with another ID, a
\* padded name and no address; a cell create_payslip_pdf cannot convert, in the
\* first row or the last; no email address; a row without a name; no joining date
Sheets ==
  { <<TemplateRow>>,
    <<Bala, Chitra>>,
    <<Bala, [Chitra EXCEPT !["FullName"] = NameCell(<<" ", "Bala", " ">>),
                           !["Email"] = NaNCell]>>,
    <<[Bala EXCEPT !["Professional Tax"] = TextCell], Chitra>>,
    <<Chitra, [Bala EXCEPT !["Actual Payable Days"] = NaNCell]>>,
    <<[Bala EXCEPT !["Email"] = NaNCell], [Chitra EXCEPT !["Email"] = NameCell(<<>>)]>>,
    <<[Bala EXCEPT !["FullName"] = NaNCell], Chitra>>,
    <<[Bala EXCEPT !["Date of Joining"] = NaNCell],
      [Chitra EXCEPT !["Date of Joining"] = TextCell]>> }

VARIABLES
  now,                     \* datetime.now()
  SEND_ALL_PAST_PAYSLIPS,  \* config.py, read when a run starts
  df,                      \* the rows of employees.xlsx
  sent_log_file,           \* the content of .payslip_sent_log.json
  payslips_dir,            \* the files under payslips/: path -> <<row index, path>>
  emailed,                 \* the emails delivered: <<Employee ID, year, month>> -> count
  pc,                      \* where main is: "idle", "rows", "periods", and how the last
                           \* run ended: "completed", "exited", "aborted", "crashed"
  runs,                    \* the runs started
  sent_key,                \* main's locals
  sent_log,
  idx,
  months_to_process,
  created_files,
  slip                     \* create_payslip_pdf's locals and what it drew

vars ==
  <<now, SEND_ALL_PAST_PAYSLIPS, df, sent_log_file, payslips_dir, emailed, pc, runs,
    sent_key, sent_log, idx, months_to_process, created_files, slip>>

mainLocals == <<sent_key, sent_log, idx, months_to_process, created_files>>

world == <<sent_log_file, payslips_dir, emailed>>

InRun == pc \in {"rows", "periods"}

(***************************************************************************)
(* main()                                                                  *)
(***************************************************************************)
\* Lines 528-538: the period is already marked in the log: log and return
StartAlreadyProcessed ==
  /\ ~InRun /\ runs < MaxRuns
  /\ sent_log_file.last_sent = SentKey(now)
  /\ pc' = "exited"
  /\ runs' = runs + 1
  /\ UNCHANGED <<now, SEND_ALL_PAST_PAYSLIPS, df, world, mainLocals, slip>>

\* Lines 540-544: pd.read_excel raises: log and return
StartReadFails ==
  /\ ~InRun /\ runs < MaxRuns
  /\ sent_log_file.last_sent # SentKey(now)
  /\ pc' = "aborted"
  /\ runs' = runs + 1
  /\ UNCHANGED <<now, SEND_ALL_PAST_PAYSLIPS, df, world, mainLocals, slip>>

\* Lines 528-549: the sheet is read, the loop begins
StartRun ==
  /\ ~InRun /\ runs < MaxRuns
  /\ sent_log_file.last_sent # SentKey(now)
  /\ pc' = "rows"
  /\ runs' = runs + 1
  /\ sent_key' = SentKey(now)
  /\ sent_log' = sent_log_file
  /\ idx' = 1
  /\ months_to_process' = <<>>
  /\ created_files' = <<>>
  /\ UNCHANGED <<now, SEND_ALL_PAST_PAYSLIPS, df, world, slip>>

\* Lines 552-553: a row without FullName or Employee ID is passed over
SkipRow ==
  /\ pc = "rows" /\ idx <= Len(df)
  /\ IsNa(df[idx], "FullName") \/ IsNa(df[idx], "Employee ID")
  /\ idx' = idx + 1
  /\ UNCHANGED <<now, SEND_ALL_PAST_PAYSLIPS, df, world, pc, runs, sent_key, sent_log,
                 months_to_process, created_files, slip>>

\* Lines 555-574: the months of the row; with none, the loop goes to the next row
BeginRow ==
  /\ pc = "rows" /\ idx <= Len(df)
  /\ ~(IsNa(df[idx], "FullName") \/ IsNa(df[idx], "Employee ID"))
  /\ LET months == MonthsToProcess(df[idx], now, SEND_ALL_PAST_PAYSLIPS)
     IN  /\ months_to_process' = months
         /\ pc' = IF months = <<>> THEN "rows" ELSE "periods"
         /\ idx' = IF months = <<>> THEN idx + 1 ELSE idx
  /\ UNCHANGED <<now, SEND_ALL_PAST_PAYSLIPS, df, world, runs, sent_key, sent_log,
                 created_files, slip>>


\* The loop's position after the month at the head of months_to_process
AfterPeriod ==
  /\ months_to_process' = Tail(months_to_process)
  /\ pc' = IF Tail(months_to_process) = <<>> THEN "rows" ELSE "periods"
  /\ idx' = IF Tail(months_to_process) = <<>> THEN idx + 1 ELSE idx

\* Lines 577-588: the page is written and recorded
Rendered ==
  LET out_pdf == OutPdf(FullNameOf(df[idx]), Head(months_to_process))
  IN  /\ payslips_dir' =
           [p \in DOMAIN payslips_dir \cup {out_pdf} |->
              IF p = out_pdf THEN <<idx, Head(months_to_process)>> ELSE payslips_dir[p]]
      /\ created_files' = Append(created_files, <<idx, out_pdf>>)

HasEmail(row) == ~IsNa(row, "Email") /\ row["Email"].t # <<>>

\* Line 586: create_payslip_pdf raises on a cell it cannot convert; nothing
\* catches it and main ends with the exception
RenderRaises ==
  /\ pc = "periods" /\ Raises(df[idx])
  /\ pc' = "crashed"
  /\ UNCHANGED <<now, SEND_ALL_PAST_PAYSLIPS, df, world, runs, sent_key, sent_log, idx,
                 months_to_process, created_files, slip>>

\* Lines 581-586: mkdir or the canvas cannot write the file (disk full, no
\* permission): the OSError leaves main the same way
RenderWriteFails ==
  /\ pc = "periods"
  /\ pc' = "crashed"
  /\ UNCHANGED <<now, SEND_ALL_PAST_PAYSLIPS, df, world, runs, sent_key, sent_log, idx,
                 months_to_process, created_files, slip>>

\* Lines 590-592, 601-602: no address (or no SMTP credentials): no email
RenderNoEmail ==
  /\ pc = "periods" /\ ~Raises(df[idx])
  /\ ~HasEmail(df[idx]) \/ ~email_cfg_ready
  /\ Rendered /\ AfterPeriod
  /\ UNCHANGED <<now, SEND_ALL_PAST_PAYSLIPS, df, sent_log_file, emailed, runs, sent_key,
                 sent_log, slip>>

EmailKey == <<df[idx]["Employee ID"].t, Head(months_to_process).y,
              Head(months_to_process).m>>

\* Lines 594-598: send_email_with_attachment returns (True, "Sent")
RenderAndSend ==
  /\ pc = "periods" /\ ~Raises(df[idx])
  /\ HasEmail(df[idx]) /\ email_cfg_ready
  /\ Rendered /\ AfterPeriod
  /\ emailed' = [k \in DOMAIN emailed \cup {EmailKey} |->
                   IF k = EmailKey
                   THEN (IF k \in DOMAIN emailed THEN emailed[k] + 1 ELSE 1)
                   ELSE emailed[k]]
  /\ UNCHANGED <<now, SEND_ALL_PAST_PAYSLIPS, df, sent_log_file, runs, sent_key,
                 sent_log, slip>>

\* Lines 598-600: send_email_with_attachment catches the failure and returns
\* (False, ...); main logs the error
RenderSendFails ==
  /\ pc = "periods" /\ ~Raises(df[idx])
  /\ HasEmail(df[idx]) /\ email_cfg_ready
  /\ Rendered /\ AfterPeriod
  /\ UNCHANGED <<now, SEND_ALL_PAST_PAYSLIPS, df, sent_log_file, emailed, runs, sent_key,
                 sent_log, slip>>

\* A save that keeps only the run's own history entry (C6 rejects it)
FinishRunForgetting ==
  /\ pc = "rows" /\ idx > Len(df)
  /\ sent_log_file' =
       [last_sent |-> sent_key,
        history |-> <<[month |-> sent_key[2], year |-> sent_key[1], timestamp |-> now,
                       created |-> [i \in 1..Len(created_files) |-> created_files[i][2]]]>>]
  /\ pc' = "completed"
  /\ UNCHANGED <<now, SEND_ALL_PAST_PAYSLIPS, df, payslips_dir, emailed, runs, mainLocals,
                 slip>>

\* Lines 604-612: after the last row the log is updated and saved
FinishRun ==
  /\ pc = "rows" /\ idx > Len(df)
  /\ sent_log_file' =
       [last_sent |-> sent_key,
        history |-> Append(sent_log.history,
                           [month |-> sent_key[2], year |-> sent_key[1],
                            timestamp |-> now,
                            created |-> [i \in 1..Len(created_files) |-> created_files[i][2]]])]
  /\ pc' = "completed"
  /\ UNCHANGED <<now, SEND_ALL_PAST_PAYSLIPS, df, payslips_dir, emailed, runs, mainLocals,
                 slip>>

(***************************************************************************)
(* The environment: time passes; config.py is edited between runs.         *)
(***************************************************************************)
\* The months the clock of the runs goes through
MaxClockMonths == 2

\* The 15th, 09:00, of each month of the clock, from the first month of the window
ClockInstants == {[y |-> WindowMonth(k).y, m |-> WindowMonth(k).m, d |-> 15, t |-> 9] :
                    k \in 0..(MaxClockMonths - 1)}

\* Time passes.  main reads the clock when it starts, at the head of each row and
\* when it saves the log, so time that passes among the periods of a row is time
\* that passes before the next row.
Tick ==
  /\ pc # "periods"
  /\ \E later \in ClockInstants : Ord(later) > Ord(now) /\ now' = later
  /\ UNCHANGED <<SEND_ALL_PAST_PAYSLIPS, df, world, pc, runs, mainLocals, slip>>

EditConfig ==
  /\ ~InRun /\ runs < MaxRuns
  /\ SEND_ALL_PAST_PAYSLIPS' = ~SEND_ALL_PAST_PAYSLIPS
  /\ UNCHANGED <<now, df, world, pc, runs, mainLocals, slip>>

IdleLocals ==
  /\ sent_key = <<>>
  /\ sent_log = EmptyLog
  /\ idx = 0
  /\ months_to_process = <<>>
  /\ created_files = <<>>

(***************************************************************************)
(* The specifications.                                                     *)
(***************************************************************************)
NoWorld ==
  /\ sent_log_file = EmptyLog
  /\ payslips_dir = <<>>
  /\ emailed = <<>>

\* The runs of main: any sheet, any month of the clock, either setting
Init ==
  /\ now \in ClockInstants
  /\ SEND_ALL_PAST_PAYSLIPS \in BOOLEAN
  /\ df \in Sheets
  /\ NoWorld
  /\ pc = "idle"
  /\ runs = 0
  /\ IdleLocals
  /\ slip = NoSlip

Next ==
  \/ StartAlreadyProcessed
  \/ StartReadFails
  \/ StartRun
  \/ SkipRow
  \/ BeginRow
  \/ RenderRaises
  \/ RenderWriteFails
  \/ RenderNoEmail
  \/ RenderAndSend
  \/ RenderSendFails
  \/ FinishRun
  \/ Tick
  \/ EditConfig

Spec == Init /\ [][Next]_vars

\* create_payslip_pdf on its own, on one row, a block of lines at a time
PayInit ==
  /\ df \in {<<r>> : r \in PayRows}
  /\ slip = [NoSlip EXCEPT !.pc = "days"]
  /\ now = [y |-> WindowMonth(0).y, m |-> WindowMonth(0).m, d |-> 1, t |-> 0]
  /\ SEND_ALL_PAST_PAYSLIPS = FALSE
  /\ NoWorld
  /\ pc = "idle"
  /\ runs = 0
  /\ IdleLocals

\* create_payslip_pdf touches nothing of main's
OutsideThePayslip ==
  UNCHANGED <<now, SEND_ALL_PAST_PAYSLIPS, df, world, pc, runs, mainLocals>>

\* Lines 326-331: the days
ReadDays ==
  /\ slip.pc = "days"
  /\ OutsideThePayslip
  /\ slip' = [slip EXCEPT !.pc = "prorate", !.i = 1,
                          !.total_working_days = WorkingDays(df[1])[1],
                          !.actual_payable_days = WorkingDays(df[1])[2]]

\* Lines 383-396: one prorated item is drawn and added
ProrateItem ==
  /\ slip.pc = "prorate"
  /\ OutsideThePayslip
  /\ \E prorated_amt \in {Prorate(AmtF(df[1], prorate_items[slip.i]),
                                  slip.total_working_days, slip.actual_payable_days)} :
       slip' = [slip EXCEPT
                  !.earnings = Append(@, Line(prorate_items[slip.i], prorated_amt)),
                  !.total_earn = FAdd(@, prorated_amt),
                  !.i = IF slip.i = Len(prorate_items) THEN 1 ELSE @ + 1,
                  !.pc = IF slip.i = Len(prorate_items) THEN "allowances" ELSE @]

\* Lines 398-409: one item that is not prorated is drawn and added
NonProrateItem ==
  /\ slip.pc = "allowances"
  /\ OutsideThePayslip
  /\ \E amt_f \in {AmtF(df[1], non_prorate_items[slip.i])} :
       slip' = [slip EXCEPT
                  !.earnings = Append(@, Line(non_prorate_items[slip.i], amt_f)),
                  !.total_earn = FAdd(@, amt_f),
                  !.i = IF slip.i = Len(non_prorate_items) THEN 0 ELSE @ + 1,
                  !.pc = IF slip.i = Len(non_prorate_items) THEN "bonus" ELSE @]

\* The items after the loops: the conversion of line 411, 431, 437 or 444 raises
ConversionRaises(at, label) ==
  /\ slip.pc = at
  /\ OutsideThePayslip
  /\ UnguardedRaises(df[1], label)
  /\ slip' = [slip EXCEPT !.pc = "raised"]

\* Lines 411-420: the Performance Bonus if it is > 0, then Total Earnings (A)
Bonus ==
  /\ slip.pc = "bonus"
  /\ OutsideThePayslip
  /\ ~UnguardedRaises(df[1], "Performance Bonus")
  /\ \E lines \in {OptionalLine("Performance Bonus",
                                UnguardedAmt(df[1], "Performance Bonus"))} :
       \E total_earn \in {RunningTotal(lines, slip.total_earn)} :
         slip' = [slip EXCEPT !.earnings = @ \o lines,
                              !.total_earn = total_earn,
                              !.total_earn_shown = Shown(total_earn),
                              !.pc = "tax"]

\* Lines 427-435: Professional Tax, always
ProfessionalTax ==
  /\ slip.pc = "tax"
  /\ OutsideThePayslip
  /\ ~UnguardedRaises(df[1], "Professional Tax")
  /\ \E pt_amt \in {UnguardedAmt(df[1], "Professional Tax")} :
       slip' = [slip EXCEPT !.deductions = Append(@, Line("Professional Tax", pt_amt)),
                            !.total_ded = FAdd(@, pt_amt),
                            !.pc = "pf"]

\* Lines 437-442: PF if it is > 0
ProvidentFund ==
  /\ slip.pc = "pf"
  /\ OutsideThePayslip
  /\ ~UnguardedRaises(df[1], "PF")
  /\ \E lines \in {OptionalLine("PF (Provident Fund)",
                                PfAmt(UnguardedAmt(df[1], "PF")))} :
       slip' = [slip EXCEPT !.deductions = @ \o lines,
                            !.total_ded = RunningTotal(lines, @),
                            !.pc = "recovery"]

\* Lines 444-453: the recovery if it is > 0, then Total Deductions (C)
Recovery ==
  /\ slip.pc = "recovery"
  /\ OutsideThePayslip
  /\ ~UnguardedRaises(df[1], "Performance Bonus Recovery")
  /\ \E lines \in {OptionalLine("Performance Bonus",
                                UnguardedAmt(df[1], "Performance Bonus Recovery"))} :
       \E total_ded \in {RunningTotal(lines, slip.total_ded)} :
         slip' = [slip EXCEPT !.deductions = @ \o lines,
                              !.total_ded = total_ded,
                              !.total_ded_shown = Shown(total_ded),
                              !.pc = "summary"]

\* Lines 463-484: the net salary, its rounding, the words, and c.save().  (The
\* words raise only from 2000 crore on, which no row of the sheets reaches.)
Summary ==
  /\ slip.pc = "summary"
  /\ OutsideThePayslip
  /\ \E net_salary \in {NetSalary(slip.total_earn, slip.total_ded)} :
       /\ ~FIsNaN(net_salary)
       /\ \E net_int \in {FRoundInt(net_salary)} :
            \E localized \in {num_to_words_indian(PyInt(net_int))} :
              /\ ~localized.raised
              /\ slip' = [slip EXCEPT !.net_salary = net_salary,
                                      !.net_shown = Shown(net_salary),
                                      !.net_int = net_int,
                                      !.words = localized.words \o " only",
                                      !.pc = "saved"]

\* Line 470: int(round(net_salary)) raises ValueError on NaN
RoundRaises ==
  /\ slip.pc = "summary"
  /\ OutsideThePayslip
  /\ FIsNaN(NetSalary(slip.total_earn, slip.total_ded))
  /\ slip' = [slip EXCEPT !.pc = "raised"]

PayNext ==
  \/ ReadDays
  \/ ProrateItem
  \/ NonProrateItem
  \/ Bonus
  \/ ConversionRaises("bonus", "Performance Bonus")
  \/ ProfessionalTax
  \/ ConversionRaises("tax", "Professional Tax")
  \/ ProvidentFund
  \/ ConversionRaises("pf", "PF")
  \/ Recovery
  \/ ConversionRaises("recovery", "Performance Bonus Recovery")
  \/ Summary
  \/ RoundRaises

PaySpec == PayInit /\ [][PayNext]_vars

\* The page is complete and saved / an exception left create_payslip_pdf
Drawn == slip.pc = "saved"

Raised == slip.pc = "raised"

\* create_payslip_pdf ends with an exception on exactly the rows main takes to
\* raise (an invariant of PaySpec)
RaisesAsComputed == (Drawn \/ Raised) => (Raised <=> Raises(df[1]))

\* num_to_words_indian on its own.  The crore counts go up to MaxCrore.
MaxCrore == 2000

CroreValues == {0, 1, 19, 20, 99, 100, 999, 1000, MaxCrore - 1, MaxCrore}

PairValues == {0, 1, 10, 19, 20, 99}

RestValues == {0, 1, 10, 11, 19, 20, 21, 90, 99, 100, 101, 110, 119, 120, 199, 900, 999}

\* The int with the given crore, lakh, thousand and remainder groups
FromGroups(g) ==
  [neg |-> FALSE,
   mag |-> BAdd(BMul(BFromInt(g[1]), BFromInt(10000000)),
                BFromInt(g[2] * 100000 + g[3] * 1000 + g[4]))]

WordGroups ==
  (CroreValues \X PairValues \X PairValues \X RestValues)
    \cup {<<0, 0, t, r>> : t \in 0..1, r \in 0..999}

WordsInit ==
  /\ slip \in {[pc |-> "called", groups |-> g, n |-> FromGroups(g), words |-> ""] :
                 g \in WordGroups}
  /\ df = <<TemplateRow>>
  /\ now = [y |-> WindowMonth(0).y, m |-> WindowMonth(0).m, d |-> 1, t |-> 0]
  /\ SEND_ALL_PAST_PAYSLIPS = FALSE
  /\ NoWorld
  /\ pc = "idle"
  /\ runs = 0
  /\ IdleLocals

\* Lines 124-160: the call returns a string
WordsReturn ==
  /\ slip.pc = "called"
  /\ OutsideThePayslip
  /\ \E localized \in {num_to_words_indian(slip.n)} :
       /\ ~localized.raised
       /\ slip' = [slip EXCEPT !.pc = "returned", !.words = localized.words]

\* Lines 139, 147: ones[n//100] raises IndexError in three(crore)
WordsRaise ==
  /\ slip.pc = "called"
  /\ OutsideThePayslip
  /\ num_to_words_indian(slip.n).raised
  /\ slip' = [slip EXCEPT !.pc = "raised"]

WordsNext == WordsReturn \/ WordsRaise

WordsSpec == WordsInit /\ [][WordsNext]_vars

\* The months of one row: main at the head of its loop, on any joining cell and
\* any instant of the window
PeriodDays(y, m) == {1, 15, 27, DaysInMonth(y, m)}

PeriodHours == {0, 9, 18}

PeriodInstants ==
  UNION { { [y |-> WindowMonth(k).y, m |-> WindowMonth(k).m, d |-> d, t |-> t] :
              d \in PeriodDays(WindowMonth(k).y, WindowMonth(k).m), t \in PeriodHours } :
          k \in 0..(MaxMonths - 1) }

\* The joining cells: a date cell or a "DD-MM-YYYY" text for every instant, an
\* empty cell, a text that is no date, no column
JoiningCells ==
  {[kind |-> "date", d |-> i] : i \in PeriodInstants}
    \cup {DmyCell(i.d, i.m, i.y) : i \in PeriodInstants}
    \cup {NaNCell, TextCell, AbsentCell}

PeriodInit ==
  /\ now \in PeriodInstants
  /\ SEND_ALL_PAST_PAYSLIPS \in BOOLEAN
  /\ df \in { <<[TemplateRow EXCEPT !["Date of Joining"] = c]>> : c \in JoiningCells }
            \cup { <<[TemplateRow EXCEPT !["FullName"] = NaNCell]>>,
                   <<[TemplateRow EXCEPT !["Employee ID"] = AbsentCell]>> }
  /\ NoWorld
  /\ pc = "rows"
  /\ runs = 1
  /\ sent_key = SentKey(now)
  /\ sent_log = EmptyLog
  /\ idx = 1
  /\ months_to_process = <<>>
  /\ created_files = <<>>
  /\ slip = NoSlip

PeriodNext == SkipRow \/ BeginRow

PeriodSpec == PeriodInit /\ [][PeriodNext]_vars

(***************************************************************************)
(* Properties of create_payslip_pdf (checked under PaySpec).               *)
(***************************************************************************)
\* The number a cell stands for, an empty or missing cell counting as 0
FieldValue(row, label) ==
  IF row[label].kind = "num" THEN FDiv(FromInt(row[label].c), FromInt(100)) ELSE FZero

\* The same in hundredths, exactly
FieldCents(row, label) == IF row[label].kind = "num" THEN row[label].c ELSE 0

RECURSIVE SumShown(_)
SumShown(lines) == IF lines = <<>> THEN 0 ELSE Head(lines).shown + SumShown(Tail(lines))

Abs(n) == IF n < 0 THEN -n ELSE n

\* C1: on every payslip drawn, the Total Earnings figure is the sum of the earning
\* amounts as printed (2 decimals each), and the Total Deductions figure is the sum
\* of the deduction amounts as printed.
C1_TotalsAreSumsOfShownLines ==
  Drawn =>
    /\ slip.total_earn_shown = SumShown(slip.earnings)
    /\ slip.total_ded_shown = SumShown(slip.deductions)

\* The row's exact net salary in hundredths, times its (whole) working days t > 0:
\* (Basic + HRA + Special) * a + (the other earnings - the deductions) * t
ExactNetTimesDays(row, t, a) ==
  LET pos(l) == IF FieldCents(row, l) > 0 THEN FieldCents(row, l) ELSE 0
  IN  (FieldCents(row, "Basic") + FieldCents(row, "HRA")
         + FieldCents(row, "Special Allowance")) * a
      + ( FieldCents(row, "Medical Allowance") + FieldCents(row, "Transport Allowance")
          + FieldCents(row, "Professional Allowance") + FieldCents(row, "Performance Pay")
          + FieldCents(row, "Courier Reimb") + pos("Performance Bonus")
          - FieldCents(row, "Professional Tax") - pos("PF")
          - pos("Performance Bonus Recovery") ) * t

\* x1 + x2 + ... + xn, added left to right
RECURSIVE SumInOrder(_)
SumInOrder(xs) ==
  IF Len(xs) = 1 THEN xs[1]
  ELSE FAdd(SumInOrder(SubSeq(xs, 1, Len(xs) - 1)), xs[Len(xs)])

\* C2: on every payslip drawn, net salary = totalEarnings - totalDeductions with
\* totalEarnings = prorate(Basic) + prorate(HRA) + prorate(Special Allowance)
\* + Medical + Transport + Professional Allowance + Performance Pay + Courier Reimb
\* + (Performance Bonus if > 0) and totalDeductions = Professional Tax
\* + (PF if > 0) + (Performance Bonus Recovery if > 0); the printed net salary is
\* within half a cent of the exact value worked out by hand, and is 43,637.50 for
\* the end-to-end example.
C2_NetSalaryIsEarningsMinusDeductions ==
  Drawn =>
    LET row == df[1]
        t   == FieldValue(row, "Total Working Days")
        a   == FieldValue(row, "Actual Payable Days")
        v(l) == FieldValue(row, l)
        ifPos(x) == IF FPos(x) THEN x ELSE FZero
        te  == SumInOrder(<<Prorate(v("Basic"), t, a), Prorate(v("HRA"), t, a),
                            Prorate(v("Special Allowance"), t, a),
                            v("Medical Allowance"), v("Transport Allowance"),
                            v("Professional Allowance"), v("Performance Pay"),
                            v("Courier Reimb"), ifPos(v("Performance Bonus"))>>)
        td  == SumInOrder(<<v("Professional Tax"), ifPos(v("PF")),
                            ifPos(v("Performance Bonus Recovery"))>>)
        td0 == FieldCents(row, "Total Working Days") \div 100
        ad0 == FieldCents(row, "Actual Payable Days") \div 100
    IN  /\ slip.total_earn = te
        /\ slip.total_ded = td
        /\ slip.net_salary = FSub(te, td)
        /\ slip.net_shown = Cents(FSub(te, td))
        /\ IF td0 > 0
           THEN 2 * Abs(slip.net_shown * td0 - ExactNetTimesDays(row, td0, ad0)) <= td0
           ELSE slip.net_shown = ExactNetTimesDays(row, 1, 0)
        /\ row = ExampleRow => slip.net_shown = 4363750

C2_Witness == Drawn /\ df[1] = ExampleRow /\ slip.net_shown = 4363750

\* C3: the prorated amount of Basic, HRA and Special Allowance is
\* fullAmount * payableDays / totalWorkingDays when totalWorkingDays > 0 and 0
\* otherwise; it is exactly fullAmount when payableDays = totalWorkingDays > 0
\* and exactly 0 when payableDays = 0.
C3_ProrationIsExact ==
  Drawn =>
    LET row == df[1]
        t   == FieldValue(row, "Total Working Days")
        a   == FieldValue(row, "Actual Payable Days")
    IN  \A i \in 1..Len(prorate_items) :
          LET full == FieldValue(row, prorate_items[i])
              got  == slip.earnings[i].amt
          IN  /\ got = (IF FPos(t) THEN FDiv(FMul(full, a), t) ELSE FZero)
              /\ (FPos(t) /\ a = t) => got = full
              /\ (FPos(t) /\ a = FZero) => got = FZero

\* C9: whatever numeric cell of the row is empty or not a number, the payslip is
\* composed (create_payslip_pdf does not raise).
C9_BadCellNeverRaises == ~Raised

\* C10: the deductions drawn are, in this order, Professional Tax (always), PF
\* only if > 0, Performance Bonus Recovery only if > 0, and nothing else; with
\* Professional Tax 200, PF 0 and Recovery 0 there is the one line
\* (Professional Tax, 200.00) and the total is 200.00.
C10_DeductionLines ==
  Drawn =>
    LET row == df[1]
        item(label, l) == <<[label |-> label, shown |-> FieldCents(row, l)]>>
        optional(label, l) == IF FieldCents(row, l) > 0 THEN item(label, l) ELSE <<>>
        want == item("Professional Tax", "Professional Tax")
                  \o optional("PF (Provident Fund)", "PF")
                  \o optional("Performance Bonus", "Performance Bonus Recovery")
    IN  /\ [i \in 1..Len(slip.deductions) |->
              [label |-> slip.deductions[i].label, shown |-> slip.deductions[i].shown]]
           = want
        /\ ( FieldCents(row, "Professional Tax") = 20000 /\ FieldCents(row, "PF") = 0
             /\ FieldCents(row, "Performance Bonus Recovery") = 0 )
           => ( Len(slip.deductions) = 1 /\ slip.deductions[1].shown = 20000
                /\ slip.total_ded_shown = 20000 )

C10_Witness ==
  /\ Drawn
  /\ df[1]["Professional Tax"] = NumCell(20000)
  /\ df[1]["PF"] = NumCell(0)
  /\ df[1]["Performance Bonus Recovery"] = NumCell(0)
  /\ Len(slip.deductions) = 1
  /\ slip.total_ded_shown = 20000

(***************************************************************************)
(* Properties of the runs of main (checked under Spec).                    *)
(***************************************************************************)
\* C4: a failure while rendering or emailing one (employee, period) pair never
\* prevents the pairs after it: no run ends on an exception while a period of
\* the row or a later row is still to be processed.
C4_FailureNeverStopsLaterPairs ==
  ~( /\ pc = "crashed"
     /\ (Len(months_to_process) > 1 \/ idx < Len(df)) )

\* Every run started so far has run to completion (each one saved the log), and
\* ended in the month in which it began
AllRunsCompleted ==
  /\ pc = "completed"
  /\ Len(sent_log_file.history) = runs
  /\ \A i \in 1..Len(sent_log_file.history) :
       SentKey(sent_log_file.history[i].timestamp)
         = <<sent_log_file.history[i].year, sent_log_file.history[i].month>>

\* C5: over runs of main that each run to completion, in the same or in later
\* months and with either setting of SEND_ALL_PAST_PAYSLIPS, the payslip of an
\* employee for a period is emailed at most once.
C5_AtMostOneEmailPerPeriod ==
  AllRunsCompleted => \A k \in DOMAIN emailed : emailed[k] <= 1

\* C6: the stored sent log changes only in the step that ends a run which has
\* gone through every row, and that step changes it once: last_sent becomes the
\* run's year and month, one history entry is appended and the earlier entries
\* stay as they were.  A run that exits early, aborts or crashes leaves the log
\* as it was, and every run that completes has saved it.
C6_SentLogWrittenOnceByCompletedRun ==
  [][ /\ sent_log_file' # sent_log_file =>
           /\ pc = "rows" /\ idx > Len(df)
           /\ pc' = "completed"
           /\ sent_log_file'.last_sent = sent_key
           /\ Len(sent_log_file'.history) = Len(sent_log_file.history) + 1
           /\ SubSeq(sent_log_file'.history, 1, Len(sent_log_file.history))
                = sent_log_file.history
           /\ LET entry == sent_log_file'.history[Len(sent_log_file'.history)]
              IN  <<entry.year, entry.month>> = sent_key
      /\ (pc' \in {"exited", "aborted", "crashed"} /\ pc' # pc) =>
           sent_log_file' = sent_log_file
      /\ (pc' = "completed" /\ pc # "completed") => sent_log_file' # sent_log_file
    ]_vars

\* Two runs in different months have completed, the second keeping the entry of
\* the first
C6_Witness ==
  /\ pc = "completed"
  /\ Len(sent_log_file.history) = 2
  /\ sent_log_file.history[1].month # sent_log_file.history[2].month
  /\ sent_log_file.last_sent = <<sent_log_file.history[2].year,
                                 sent_log_file.history[2].month>>

(***************************************************************************)
(* Properties of the months of a row (checked under PeriodSpec).           *)
(***************************************************************************)
\* main has worked out the months of the row
PeriodsResolved ==
  /\ ~(IsNa(df[1], "FullName") \/ IsNa(df[1], "Employee ID"))
  /\ pc = "periods" \/ idx > 1

HasJoiningDate == df[1]["Date of Joining"].kind \in {"date", "dmy"}

\* The joining date the sheet states
JoiningDate ==
  LET cell == df[1]["Date of Joining"]
  IN  IF cell.kind = "date" THEN cell.d
      ELSE [y |-> cell.yyyy, m |-> cell.mm, d |-> cell.dd, t |-> 0]

MonthIndex(dt) == dt.y * 12 + (dt.m - 1)

\* C7: with SEND_ALL_PAST_PAYSLIPS and a joining date not after now, the months of
\* the row are every month from the joining month through the current month, one
\* calendar month apart, in ascending order.
C7_EveryMonthSinceJoining ==
  ( /\ PeriodsResolved /\ HasJoiningDate
    /\ SEND_ALL_PAST_PAYSLIPS
    /\ Ord(JoiningDate) <= Ord(now) ) =>
    /\ Len(months_to_process) = MonthIndex(now) - MonthIndex(JoiningDate) + 1
    /\ \A i \in 1..Len(months_to_process) :
         MonthIndex(months_to_process[i]) = MonthIndex(JoiningDate) + i - 1

\* C8: with a joining date after the current date the row gets no month, whatever
\* SEND_ALL_PAST_PAYSLIPS is.
C8_NoPeriodBeforeJoining ==
  ( /\ PeriodsResolved /\ HasJoiningDate
    /\ Ord([JoiningDate EXCEPT !.t = 0]) > Ord([now EXCEPT !.t = 0]) ) =>
    months_to_process = <<>>

(***************************************************************************)
(* Properties of num_to_words_indian (checked under WordsSpec).            *)
(***************************************************************************)
DigitWords == <<"One", "Two", "Three", "Four", "Five", "Six", "Seven", "Eight", "Nine">>

TeenWords ==
  <<"Ten", "Eleven", "Twelve", "Thirteen", "Fourteen", "Fifteen", "Sixteen", "Seventeen",
    "Eighteen", "Nineteen">>

TensWords == <<"Twenty", "Thirty", "Forty", "Fifty", "Sixty", "Seventy", "Eighty", "Ninety">>

\* The words of a number 1..999, from its decimal digits
SpellWords(v) ==
  LET h == v \div 100
      t == (v % 100) \div 10
      u == v % 10
  IN  (IF h > 0 THEN <<DigitWords[h], "Hundred">> ELSE <<>>)
      \o (IF t = 1 THEN <<TeenWords[u + 1]>>
          ELSE (IF t >= 2 THEN <<TensWords[t - 1]>> ELSE <<>>)
               \o (IF u > 0 THEN <<DigitWords[u]>> ELSE <<>>))

\* The spelling the groups call for: each non-zero group, then its scale word
SpelledGroups(g) ==
  IF g = <<0, 0, 0, 0>> THEN "Zero"
  ELSE Join( (IF g[1] > 0 THEN SpellWords(g[1]) \o <<"Crore">> ELSE <<>>)
             \o (IF g[2] > 0 THEN SpellWords(g[2]) \o <<"Lakh">> ELSE <<>>)
             \o (IF g[3] > 0 THEN SpellWords(g[3]) \o <<"Thousand">> ELSE <<>>)
             \o (IF g[4] > 0 THEN SpellWords(g[4]) ELSE <<>>) )

\* C11: num_to_words_indian accepts every n >= 0 without error; it returns "Zero"
\* for 0 and otherwise the spellings of the non-zero crore, lakh, thousand and
\* remainder groups, each followed by its scale word, joined by single spaces
\* (the spelling is compared for crore counts below 1000).
C11_EveryNaturalIsSpelled ==
  slip.pc # "called" =>
    /\ slip.pc = "returned"
    /\ slip.groups[1] < 1000 => slip.words = SpelledGroups(slip.groups)

(***************************************************************************)
(* Further properties of the months of a row (PeriodSpec), of the runs of  *)
(* main (Spec) and of create_payslip_pdf (PaySpec).                        *)
(***************************************************************************)
\* C12: when the Date of Joining cell is empty, missing or no date, today stands
\* for the joining date: the months of the row are exactly the current month,
\* whatever SEND_ALL_PAST_PAYSLIPS is.
C12_NoJoiningDateMeansCurrentMonth ==
  (PeriodsResolved /\ ~HasJoiningDate) =>
    /\ Len(months_to_process) = 1
    /\ MonthIndex(months_to_process[1]) = MonthIndex(now)

\* C13: within one run, the pairs (row, period) processed are written to paths
\* that differ from one another: created_files holds no path twice.
C13_DistinctOutputPaths ==
  \A i, j \in 1..Len(created_files) :
    i # j => created_files[i][2] # created_files[j][2]

\* C14: the integer create_payslip_pdf passes to num_to_words_indian is never
\* negative, and the words drawn spell the rounded net salary.
C14_WordsOfNonNegativeNet ==
  Drawn =>
    /\ slip.net_int >= 0
    /\ slip.words
         = SpelledGroups(<<slip.net_int \div 10000000, (slip.net_int % 10000000) \div 100000,
                           (slip.net_int % 100000) \div 1000, slip.net_int % 1000>>)
           \o " only"

====
